---- MODULE Spec2Model ----
(***************************************************************************)
(* A model of the IoT classification service of src/main.py: the request   *)
(* schema SensorData, the pure rule classify_sensor_data, the response     *)
(* schema PredictionResponse and the /predict handler, for several         *)
(* requests in flight at once.                                             *)
(*                                                                         *)
(* Numbers.  A Python float is a record [cls, val]: cls is "fin" for a     *)
(* finite value, "nan", "pinf" or "ninf" for the IEEE specials the JSON    *)
(* parser and an unconstrained float field let through, and "absent" for   *)
(* a field the request body lacks.  A finite temperature is held in units  *)
(* of 1/Scale degree, so that values strictly between two whole degrees    *)
(* exist; integers (humidity, co2_level) are held as they are.             *)
(***************************************************************************)
EXTENDS Integers, FiniteSets

\* ------------------------------------------------------------------ bounds
\* A temperature unit is 1/Scale degree Celsius.
Scale == 2
\* How far around each threshold the request fields range.
Margin == 1
\* The monotonic clock (time.perf_counter) runs from 0 to MaxTick.
MaxTick == 2
\* Requests that can be in flight at once.
NumReq == 2

\* ------------------------------------------------- constants of the program
HOT_TEMPERATURE == 50
HOT_CO2_LEVEL == 1000
WARM_TEMPERATURE == 35
HUMIDITY_MIN == 0
HUMIDITY_MAX == 100
CO2_LEVEL_MIN == 0
CONFIDENCE_MIN == 0
CONFIDENCE_MAX == 1
RULE_CONFIDENCE == 1
HTTP_OK == 200
HTTP_UNPROCESSABLE == 422
HTTP_INTERNAL_ERROR == 500

\* ------------------------------------------------------------------ values
Fin(v) == [cls |-> "fin", val |-> v]
NaN == [cls |-> "nan", val |-> 0]
PInf == [cls |-> "pinf", val |-> 0]
NInf == [cls |-> "ninf", val |-> 0]
Absent == [cls |-> "absent", val |-> 0]

\* Python's  x > n  for a float x (in 1/Scale units) and an integer literal n:
\* false whenever x is NaN.
FloatGt(x, n) == x.cls = "pinf" \/ (x.cls = "fin" /\ x.val > n * Scale)

Req == 1..NumReq

Labels == {"HOT", "WARM", "COLD"}

\* ------------------------------------------------------------ request data
TemperatureValues ==
    {Fin(v) : v \in ((WARM_TEMPERATURE * Scale - Margin)..(WARM_TEMPERATURE * Scale + Margin))
                    \cup ((HOT_TEMPERATURE * Scale - Margin)..(HOT_TEMPERATURE * Scale + Margin))
                    \cup ((0 - Margin)..0)}
    \cup {NaN, PInf, NInf, Absent}

HumidityValues ==
    {Fin(v) : v \in ((HUMIDITY_MIN - Margin)..HUMIDITY_MIN)
                    \cup (HUMIDITY_MAX..(HUMIDITY_MAX + Margin))}
    \cup {Absent}

Co2Values ==
    {Fin(v) : v \in ((CO2_LEVEL_MIN - Margin)..CO2_LEVEL_MIN)
                    \cup ((HOT_CO2_LEVEL - Margin)..(HOT_CO2_LEVEL + Margin))}
    \cup {Absent}

\* The request bodies a single client sends.
Bodies == [temperature : TemperatureValues, humidity : HumidityValues, co2_level : Co2Values]

\* The request bodies of the clients that run side by side: one for each
\* label, two that differ in humidity alone, and one the schema refuses.
Body(t, h, c) == [temperature |-> Fin(t), humidity |-> Fin(h), co2_level |-> Fin(c)]

ConcurrentBodies ==
    {Body(WARM_TEMPERATURE * Scale, HUMIDITY_MIN, HOT_CO2_LEVEL),
     Body(HOT_TEMPERATURE * Scale, HUMIDITY_MIN, HOT_CO2_LEVEL),
     Body(HOT_TEMPERATURE * Scale, HUMIDITY_MAX, HOT_CO2_LEVEL),
     Body(HOT_TEMPERATURE * Scale, HUMIDITY_MIN, HOT_CO2_LEVEL + 1),
     Body(HOT_TEMPERATURE * Scale, HUMIDITY_MAX + 1, HOT_CO2_LEVEL)}

NoBody == [temperature |-> Absent, humidity |-> Absent, co2_level |-> Absent]
NoResult == [label |-> "", confidence |-> 0]
NoResponse == [label |-> "", confidence |-> 0, temperature |-> Absent,
               co2_level |-> Absent, processing_time_ms |-> 0]

\* ------------------------------------------------------------------ schema
\* A schema that lost its range constraints.
SensorDataValid_Unconstrained(b) ==
    /\ b.temperature.cls # "absent"
    /\ b.humidity.cls = "fin"
    /\ b.co2_level.cls = "fin"

\* SensorData: three required fields; humidity in [0, 100]; co2_level >= 0.
SensorDataValid(b) ==
    /\ b.temperature.cls # "absent"
    /\ b.humidity.cls = "fin"
    /\ b.humidity.val >= HUMIDITY_MIN /\ b.humidity.val <= HUMIDITY_MAX
    /\ b.co2_level.cls = "fin"
    /\ b.co2_level.val >= CO2_LEVEL_MIN

\* PredictionResponse: label one of the three literals, confidence in [0, 1].
PredictionResponseValid(p) ==
    /\ p.label \in Labels
    /\ p.confidence >= CONFIDENCE_MIN /\ p.confidence <= CONFIDENCE_MAX

\* -------------------------------------------------------------- classifier
\* Variants of the rule, each a slip the claims below must notice.
FloatGe(x, n) == x.cls = "pinf" \/ (x.cls = "fin" /\ x.val >= n * Scale)

classify_NonStrict(temperature, co2_level) ==
    IF FloatGe(temperature, HOT_TEMPERATURE) \/ co2_level.val >= HOT_CO2_LEVEL
    THEN [label |-> "HOT", confidence |-> RULE_CONFIDENCE]
    ELSE IF FloatGe(temperature, WARM_TEMPERATURE)
    THEN [label |-> "WARM", confidence |-> RULE_CONFIDENCE]
    ELSE [label |-> "COLD", confidence |-> RULE_CONFIDENCE]

classify_Conjunction(temperature, co2_level) ==
    IF FloatGt(temperature, HOT_TEMPERATURE) /\ co2_level.val > HOT_CO2_LEVEL
    THEN [label |-> "HOT", confidence |-> RULE_CONFIDENCE]
    ELSE IF FloatGt(temperature, WARM_TEMPERATURE)
    THEN [label |-> "WARM", confidence |-> RULE_CONFIDENCE]
    ELSE [label |-> "COLD", confidence |-> RULE_CONFIDENCE]

classify_WarmAtThreshold(temperature, co2_level) ==
    IF FloatGt(temperature, HOT_TEMPERATURE) \/ co2_level.val > HOT_CO2_LEVEL
    THEN [label |-> "HOT", confidence |-> RULE_CONFIDENCE]
    ELSE IF FloatGe(temperature, WARM_TEMPERATURE)
    THEN [label |-> "WARM", confidence |-> RULE_CONFIDENCE]
    ELSE [label |-> "COLD", confidence |-> RULE_CONFIDENCE]

classify_DefaultUnsure(temperature, co2_level) ==
    IF FloatGt(temperature, HOT_TEMPERATURE) \/ co2_level.val > HOT_CO2_LEVEL
    THEN [label |-> "HOT", confidence |-> RULE_CONFIDENCE]
    ELSE IF FloatGt(temperature, WARM_TEMPERATURE)
    THEN [label |-> "WARM", confidence |-> RULE_CONFIDENCE]
    ELSE [label |-> "COLD", confidence |-> CONFIDENCE_MIN]

classify_DefaultNormal(temperature, co2_level) ==
    IF FloatGt(temperature, HOT_TEMPERATURE) \/ co2_level.val > HOT_CO2_LEVEL
    THEN [label |-> "HOT", confidence |-> RULE_CONFIDENCE]
    ELSE IF FloatGt(temperature, WARM_TEMPERATURE)
    THEN [label |-> "WARM", confidence |-> RULE_CONFIDENCE]
    ELSE [label |-> "NORMAL", confidence |-> RULE_CONFIDENCE]

classify_sensor_data(temperature, co2_level) ==
    IF FloatGt(temperature, HOT_TEMPERATURE) \/ co2_level.val > HOT_CO2_LEVEL
    THEN [label |-> "HOT", confidence |-> RULE_CONFIDENCE]
    ELSE IF FloatGt(temperature, WARM_TEMPERATURE)
    THEN [label |-> "WARM", confidence |-> RULE_CONFIDENCE]
    ELSE [label |-> "COLD", confidence |-> RULE_CONFIDENCE]

\* A call that lets a humid reading count as a hazard.
ClassifyCall_Humid(sensor_data) ==
    IF sensor_data.humidity.val > HUMIDITY_MIN
    THEN [label |-> "HOT", confidence |-> RULE_CONFIDENCE]
    ELSE classify_sensor_data(sensor_data.temperature, sensor_data.co2_level)

\* The call of the classifier in predict: temperature and co2_level only.
ClassifyCall(sensor_data) ==
    classify_sensor_data(sensor_data.temperature, sensor_data.co2_level)

\* A response that echoes the wrong integer field.
BuildResponse_WrongEcho(sensor_data, res, elapsed) ==
    [label |-> res.label,
     confidence |-> res.confidence,
     temperature |-> sensor_data.temperature,
     co2_level |-> sensor_data.humidity,
     processing_time_ms |-> elapsed]

\* The PredictionResponse predict builds.
BuildResponse(sensor_data, res, elapsed) ==
    [label |-> res.label,
     confidence |-> res.confidence,
     temperature |-> sensor_data.temperature,
     co2_level |-> sensor_data.co2_level,
     processing_time_ms |-> elapsed]

\* ------------------------------------------------------------------- state
VARIABLES
    pc,          \* where each request is
    body,        \* the request body received
    start_time,  \* predict's local start_time
    result,      \* predict's locals (label, confidence)
    response,    \* the PredictionResponse returned
    status,      \* the HTTP status of the answer, 0 while there is none
    invoked,     \* whether classify_sensor_data ran for the request
    clock        \* time.perf_counter()

vars == <<pc, body, start_time, result, response, status, invoked, clock>>

\* The values the state ranges over.
TypeOK ==
    /\ pc \in [Req -> {"idle", "received", "rejected", "validated", "timing",
                       "classified", "responded", "failed"}]
    /\ \A r \in Req :
          /\ body[r] \in Bodies \cup ConcurrentBodies \cup {NoBody}
          /\ start_time[r] \in 0..MaxTick
          /\ result[r].label \in Labels \cup {""}
          /\ response[r].label \in Labels \cup {""}
          /\ response[r].processing_time_ms \in 0..MaxTick
          /\ status[r] \in {0, HTTP_OK, HTTP_UNPROCESSABLE, HTTP_INTERNAL_ERROR}
          /\ invoked[r] \in BOOLEAN
    /\ clock \in 0..MaxTick

Init ==
    /\ pc = [r \in Req |-> "idle"]
    /\ body = [r \in Req |-> NoBody]
    /\ start_time = [r \in Req |-> 0]
    /\ result = [r \in Req |-> NoResult]
    /\ response = [r \in Req |-> NoResponse]
    /\ status = [r \in Req |-> 0]
    /\ invoked = [r \in Req |-> FALSE]
    /\ clock = 0

\* The clock advances on its own.
Tick ==
    /\ clock < MaxTick
    /\ clock' = clock + 1
    /\ UNCHANGED <<pc, body, start_time, result, response, status, invoked>>

\* A POST /predict arrives with body b.
Receive(r, b) ==
    /\ pc[r] = "idle"
    /\ pc' = [pc EXCEPT ![r] = "received"]
    /\ body' = [body EXCEPT ![r] = b]
    /\ UNCHANGED <<start_time, result, response, status, invoked, clock>>

\* The body is validated against SensorData before predict is entered.
Validate(r) ==
    /\ pc[r] = "received"
    /\ IF SensorDataValid(body[r])
       THEN /\ pc' = [pc EXCEPT ![r] = "validated"]
            /\ UNCHANGED status
       ELSE /\ pc' = [pc EXCEPT ![r] = "rejected"]
            /\ status' = [status EXCEPT ![r] = HTTP_UNPROCESSABLE]
    /\ UNCHANGED <<body, start_time, result, response, invoked, clock>>

\* predict: start_time = time.perf_counter()
Begin(r) ==
    /\ pc[r] = "validated"
    /\ pc' = [pc EXCEPT ![r] = "timing"]
    /\ start_time' = [start_time EXCEPT ![r] = clock]
    /\ UNCHANGED <<body, result, response, status, invoked, clock>>

\* A handler that keeps label and confidence in module-level variables, which
\* every request in flight then shares.
Classify_Shared(r) ==
    /\ pc[r] = "timing"
    /\ pc' = [pc EXCEPT ![r] = "classified"]
    /\ result' = [q \in Req |-> ClassifyCall(body[r])]
    /\ invoked' = [invoked EXCEPT ![r] = TRUE]
    /\ UNCHANGED <<body, start_time, response, status, clock>>

\* predict: label, confidence = classify_sensor_data(...)
Classify(r) ==
    /\ pc[r] = "timing"
    /\ pc' = [pc EXCEPT ![r] = "classified"]
    /\ result' = [result EXCEPT ![r] = ClassifyCall(body[r])]
    /\ invoked' = [invoked EXCEPT ![r] = TRUE]
    /\ UNCHANGED <<body, start_time, response, status, clock>>

\* predict: the processing time, then the PredictionResponse; a response the
\* schema refuses raises inside the try block and becomes the 500 answer.
Respond(r) ==
    /\ pc[r] = "classified"
    /\ LET p == BuildResponse(body[r], result[r], clock - start_time[r]) IN
       IF PredictionResponseValid(p)
       THEN /\ pc' = [pc EXCEPT ![r] = "responded"]
            /\ response' = [response EXCEPT ![r] = p]
            /\ status' = [status EXCEPT ![r] = HTTP_OK]
       ELSE /\ pc' = [pc EXCEPT ![r] = "failed"]
            /\ status' = [status EXCEPT ![r] = HTTP_INTERNAL_ERROR]
            /\ UNCHANGED response
    /\ start_time' = [start_time EXCEPT ![r] = 0]
    /\ result' = [result EXCEPT ![r] = NoResult]
    /\ UNCHANGED <<body, invoked, clock>>

\* The answer is delivered and nothing of the request remains.
Finish(r) ==
    /\ pc[r] \in {"rejected", "responded", "failed"}
    /\ pc' = [pc EXCEPT ![r] = "idle"]
    /\ body' = [body EXCEPT ![r] = NoBody]
    /\ response' = [response EXCEPT ![r] = NoResponse]
    /\ status' = [status EXCEPT ![r] = 0]
    /\ invoked' = [invoked EXCEPT ![r] = FALSE]
    /\ UNCHANGED <<start_time, result, clock>>

\* One client, every request body.
Next ==
    \/ Tick
    \/ \E b \in Bodies : Receive(1, b)
    \/ Validate(1)
    \/ Begin(1)
    \/ Classify(1)
    \/ Respond(1)
    \/ Finish(1)

Spec == Init /\ [][Next]_vars

\* Every client at once, the request bodies around the thresholds.
NextConcurrent ==
    \/ Tick
    \/ \E r \in Req :
        \/ \E b \in ConcurrentBodies : Receive(r, b)
        \/ Validate(r)
        \/ Begin(r)
        \/ Classify(r)
        \/ Respond(r)
        \/ Finish(r)

SpecConcurrent == Init /\ [][NextConcurrent]_vars

\* ------------------------------------------------------------- properties
\* The readings of a request, as the claims speak of them.
TempAbove(t, n) == t.cls = "pinf" \/ (t.cls = "fin" /\ t.val > n * Scale)
TempAtMost(t, n) == t.cls = "ninf" \/ (t.cls = "fin" /\ t.val <= n * Scale)
TempIs(t, n) == t.cls = "fin" /\ t.val = n * Scale

Classified(r) == pc[r] = "classified"
Answered(r) == pc[r] = "responded"

\* C1: whenever temperature > 50 or co2_level > 1000 the label is HOT,
\* whatever the other reading is.
C1_HotRule ==
    \A r \in Req :
        (Classified(r)
         /\ (TempAbove(body[r].temperature, 50) \/ body[r].co2_level.val > 1000))
        => result[r].label = "HOT"

\* A high co2_level alone, with temperature at most 35, gave HOT.
C1_Witness ==
    \E r \in Req :
        /\ Classified(r)
        /\ result[r].label = "HOT"
        /\ TempAtMost(body[r].temperature, 35)
        /\ body[r].co2_level.val > 1000

\* C2: for 35 < temperature <= 50 and co2_level <= 1000 the label is WARM.
C2_WarmRule ==
    \A r \in Req :
        (Classified(r)
         /\ TempAbove(body[r].temperature, 35)
         /\ TempAtMost(body[r].temperature, 50)
         /\ body[r].co2_level.val <= 1000)
        => result[r].label = "WARM"

\* Temperature exactly 50 with co2_level exactly 1000 was classified WARM.
C2_Witness ==
    \E r \in Req :
        /\ Classified(r)
        /\ TempIs(body[r].temperature, 50)
        /\ body[r].co2_level.val = 1000
        /\ result[r].label = "WARM"

\* C3: for temperature <= 35 and co2_level <= 1000 the label is COLD, and
\* co2_level exactly 1000 with temperature at most 50 is never HOT.
C3_ColdRule ==
    \A r \in Req :
        Classified(r) =>
            /\ (TempAtMost(body[r].temperature, 35) /\ body[r].co2_level.val <= 1000)
               => result[r].label = "COLD"
            /\ (TempAtMost(body[r].temperature, 50) /\ body[r].co2_level.val = 1000)
               => result[r].label # "HOT"

\* A reading below 35 with co2_level exactly 1000 was classified COLD.
C3_Witness ==
    \E r \in Req :
        /\ Classified(r)
        /\ body[r].temperature.cls = "fin"
        /\ body[r].temperature.val < 35 * Scale
        /\ body[r].co2_level.val = 1000
        /\ result[r].label = "COLD"

\* C4 as stated: temperature exactly 35 gives COLD whatever co2_level is.
C4_AsStated ==
    \A r \in Req :
        (Classified(r) /\ TempIs(body[r].temperature, 35))
        => result[r].label = "COLD"

\* C4, amended: temperature exactly 35 with co2_level <= 1000 gives COLD, not
\* WARM; with co2_level > 1000 it gives HOT.
C4_Amended ==
    \A r \in Req :
        (Classified(r) /\ TempIs(body[r].temperature, 35))
        => result[r].label = (IF body[r].co2_level.val <= 1000 THEN "COLD" ELSE "HOT")

\* Temperature exactly 35 with co2_level exactly 1000 was classified COLD.
C4_Witness ==
    \E r \in Req :
        /\ Classified(r)
        /\ TempIs(body[r].temperature, 35)
        /\ body[r].co2_level.val = 1000
        /\ result[r].label = "COLD"

\* C5: the confidence the classifier returns, and the one of every successful
\* response, is exactly 1.0.
C5_ConfidenceOne ==
    \A r \in Req :
        /\ Classified(r) => result[r].confidence = 1
        /\ status[r] = 200 => response[r].confidence = 1

\* A successful response carried the label of the default branch.
C5_Witness ==
    \E r \in Req :
        /\ status[r] = 200
        /\ response[r].label = "COLD"
        /\ response[r].confidence = 1

\* C6: two validated requests with the same temperature and co2_level and
\* different humidity get the same label, confidence and echoed values.
C6_HumidityIgnored ==
    \A r, q \in Req :
        (/\ Answered(r) /\ Answered(q)
         /\ body[r].temperature = body[q].temperature
         /\ body[r].co2_level = body[q].co2_level
         /\ body[r].humidity # body[q].humidity)
        => /\ response[r].label = response[q].label
           /\ response[r].confidence = response[q].confidence
           /\ response[r].temperature = response[q].temperature
           /\ response[r].co2_level = response[q].co2_level

\* Two such requests were both answered.
C6_Witness ==
    \E r, q \in Req :
        /\ Answered(r) /\ Answered(q)
        /\ body[r].temperature = body[q].temperature
        /\ body[r].co2_level = body[q].co2_level
        /\ body[r].humidity.val = 0
        /\ body[q].humidity.val = 100

\* A body with humidity outside [0, 100] or a negative co2_level.
OutOfRange(b) ==
    \/ b.humidity.cls = "fin" /\ (b.humidity.val < 0 \/ b.humidity.val > 100)
    \/ b.co2_level.cls = "fin" /\ b.co2_level.val < 0

\* C7: a request with humidity outside [0, 100] or a negative co2_level is
\* refused at validation: the classifier never runs for it, it gets no
\* prediction, and its outcome is the client error, not the internal error.
C7_RejectedAtValidation ==
    \A r \in Req :
        (pc[r] \notin {"idle", "received"} /\ OutOfRange(body[r]))
        => /\ pc[r] = "rejected"
           /\ status[r] = 422
           /\ status[r] # 500
           /\ ~invoked[r]
           /\ response[r] = NoResponse

\* A request with humidity 101 (and a well-formed rest) was refused.
C7_Witness ==
    \E r \in Req :
        /\ pc[r] = "rejected"
        /\ body[r].humidity.val = 101
        /\ body[r].temperature.cls = "fin"
        /\ body[r].co2_level.cls = "fin" /\ body[r].co2_level.val >= 0

\* C8: a successful response echoes the request's temperature and co2_level
\* and carries the classifier's label and confidence for those two values.
C8_Echo ==
    \A r \in Req :
        Answered(r) =>
            /\ response[r].temperature = body[r].temperature
            /\ response[r].co2_level = body[r].co2_level
            /\ response[r].label
                 = classify_sensor_data(body[r].temperature, body[r].co2_level).label
            /\ response[r].confidence
                 = classify_sensor_data(body[r].temperature, body[r].co2_level).confidence

\* A response echoed a co2_level that differs from the request's humidity.
C8_Witness ==
    \E r \in Req :
        /\ Answered(r)
        /\ response[r].co2_level.val = 1001
        /\ body[r].humidity.val = 100
        /\ response[r].label = "HOT"

\* C9: the classifier's result always fits the response schema, and no
\* validated request ends in the internal error.
C9_Total ==
    \A r \in Req :
        /\ Classified(r) =>
              /\ result[r].label \in {"HOT", "WARM", "COLD"}
              /\ result[r].confidence >= 0 /\ result[r].confidence <= 1
        /\ pc[r] # "failed"
        /\ status[r] # 500

\* A request whose temperature is not a number was answered all the same.
C9_Witness ==
    \E r \in Req :
        /\ Answered(r)
        /\ body[r].temperature.cls = "nan"
        /\ status[r] = 200

\* What a request gets when it is the only one: its fields but the time.
Alone(b) == classify_sensor_data(b.temperature, b.co2_level)

C10_OwnResult ==
    \A r \in Req :
        /\ Classified(r) => result[r] = Alone(body[r])
        /\ Answered(r) =>
              /\ response[r].label = Alone(body[r]).label
              /\ response[r].confidence = Alone(body[r]).confidence
              /\ response[r].temperature = body[r].temperature
              /\ response[r].co2_level = body[r].co2_level

\* A step leaves every request that does not move as it was.
C10_Frame ==
    \A r \in Req :
        pc'[r] = pc[r] =>
            /\ body'[r] = body[r]
            /\ start_time'[r] = start_time[r]
            /\ result'[r] = result[r]
            /\ response'[r] = response[r]
            /\ status'[r] = status[r]
            /\ invoked'[r] = invoked[r]

\* C10: under every interleaving each request's label, confidence and echoed
\* values are those it would get alone, and no step of one request touches
\* the state of another.
C10_Independent == []C10_OwnResult /\ [][C10_Frame]_vars

\* Two requests with different labels were in flight together, one answered
\* while the other was between classification and response.
C10_Witness ==
    \E r, q \in Req :
        /\ r # q
        /\ Answered(r) /\ Classified(q)
        /\ response[r].label = "WARM"
        /\ result[q].label = "HOT"

====
